---- MODULE Spec2Model ----
(***************************************************************************)
(* sharppy/sharptab/utils.py: the wind-vector functions vec2comp, comp2vec *)
(* and mag over numpy masked arrays.                                       *)
(*                                                                         *)
(* Numbers.  A float64 is modelled as  w + t * 2^-53 : a whole part w and  *)
(* a count t of units of 2^-53 (about 1.1e-16, half the float spacing at   *)
(* 1.0).  Values with w = 0 are the "tiny" ones produced by trigonometric  *)
(* noise; products of two tiny values are below the modelled range and are *)
(* 0.  There is one zero, standing for +0.0.                               *)
(*                                                                         *)
(* Masked arrays.  An element is [d |-> number, m |-> masked?]: numpy      *)
(* keeps the data under the mask, and the code reads it.  An array is      *)
(* [scalar |-> 0-d?, e |-> sequence of elements].                          *)
(***************************************************************************)
EXTENDS Integers, Sequences, FiniteSets, TLC

VARIABLES pc, a, b, missing, out, back

vars == <<pc, a, b, missing, out, back>>

\* Longest field drawn as an input.
MaxLen == 2

----------------------------------------------------------------------------
\* float64 arithmetic

Num(w, t) == [w |-> w, t |-> t]

Zero == Num(0, 0)

MinusOne == Num(-1, 0)

N360 == Num(360, 0)

\* sharppy.sharptab.constants.MISSING = -9999.
MISSING == Num(-9999, 0)

\* sharppy.sharptab.constants.TOL = 1e-10, i.e. 900720 * 2^-53
TOL == Num(0, 900720)

IAbs(n) == IF n < 0 THEN 0 - n ELSE n

ISign(n) == IF n < 0 THEN 0 - 1 ELSE IF n > 0 THEN 1 ELSE 0

IMin(m, n) == IF m < n THEN m ELSE n

IMax(m, n) == IF m < n THEN n ELSE m

CeilDiv(m, n) == (m + n - 1) \div n

RECURSIVE Pow2Floor(_)
\* the largest power of two <= n (n >= 1): half the float spacing at n,
\* in units of 2^-53
Pow2Floor(n) == IF n < 2 THEN 1 ELSE 2 * Pow2Floor(n \div 2)

\* round to float64: a tiny part below half the spacing at w is lost
Round(x) ==
    IF x.w # 0 /\ IAbs(x.t) < Pow2Floor(IAbs(x.w)) THEN Num(x.w, 0) ELSE x

Lt(x, y) == x.w < y.w \/ (x.w = y.w /\ x.t < y.t)

Neg(x) == Num(0 - x.w, 0 - x.t)

fabs(x) == IF Lt(x, Zero) THEN Neg(x) ELSE x

Add(x, y) == Round(Num(x.w + y.w, x.t + y.t))

Mul(x, y) == Round(Num(x.w * y.w, x.w * y.t + x.t * y.w))

\* x % 360. : the result takes the sign of the divisor; a tiny negative x
\* gives 360 - |x|, rounded
Mod360(x) ==
    LET r == x.w % 360
    IN  IF r = 0 /\ x.t < 0 THEN Round(Num(360, x.t)) ELSE Num(r, x.t)

\* sin(radians(x)) in float64 for x a multiple of 90 in [0, 360]:
\* sin(pi) = 1.22e-16, sin(2 pi) = -2.45e-16
SinDeg(x) ==
    CASE x = Num(0, 0)   -> Num(0, 0)
      [] x = Num(90, 0)  -> Num(1, 0)
      [] x = Num(180, 0) -> Num(0, 1)
      [] x = Num(270, 0) -> Num(-1, 0)
      [] x = Num(360, 0) -> Num(0, -2)

\* cos(radians(x)) in float64 for x a multiple of 90 in [0, 360]:
\* cos(pi/2) = 6.1e-17, cos(3 pi/2) = -1.84e-16
CosDeg(x) ==
    CASE x = Num(0, 0)   -> Num(1, 0)
      [] x = Num(90, 0)  -> Num(0, 1)
      [] x = Num(180, 0) -> Num(-1, 0)
      [] x = Num(270, 0) -> Num(0, -2)
      [] x = Num(360, 0) -> Num(1, 0)

\* arctan(p / q) in degrees for 0 < p <= q, to the nearest whole degree and
\* strictly between the axis and the diagonal unless p = q
OctDeg(p, q) ==
    LET z == (1000 * p) \div q
        milli == 45 * z + (1564 * z * (1000 - z)) \div 100000
    IN  IF p = q THEN 45 ELSE IMax(1, IMin(44, (milli + 500) \div 1000))

\* degrees(arctan2(y, x)) for whole y, x.  A zero argument is -0.0, the
\* negation of +0.0: arctan2(-0.0, x) is -0.0 for x > 0 and -pi otherwise.
Angle(y, x) ==
    LET p == IMin(IAbs(y), IAbs(x))
        q == IMax(IAbs(y), IAbs(x))
        o == IF IAbs(y) <= IAbs(x) THEN OctDeg(p, q) ELSE 90 - OctDeg(p, q)
    IN  CASE y = 0 /\ x > 0 -> 0
          [] y = 0 /\ x <= 0 -> 0 - 180
          [] y # 0 /\ x = 0 -> 90 * ISign(y)
          [] y > 0 /\ x > 0 -> o
          [] y > 0 /\ x < 0 -> 180 - o
          [] y < 0 /\ x < 0 -> o - 180
          [] y < 0 /\ x > 0 -> 0 - o

\* degrees(x / y) for tiny x and whole y, rounded away from zero, in units
\* of 2^-53 (180 / pi = 57.3)
SmallDeg(t, w) == CeilDiv(573 * IAbs(t), 10 * IAbs(w))

\* np.degrees(np.arctan2(y, x))
Atan2Deg(y, x) ==
    CASE y.w = 0 /\ x.w = 0 -> Num(Angle(y.t, x.t), 0)
      [] y.w # 0 /\ x.w # 0 -> Num(Angle(y.w, x.w), 0)
      [] y.w = 0 /\ x.w # 0 ->
            (IF y.t = 0 THEN Num(Angle(0, x.w), 0)
             ELSE IF x.w > 0 THEN Num(0, ISign(y.t) * SmallDeg(y.t, x.w))
             ELSE Round(Num(180 * ISign(y.t),
                            0 - ISign(y.t) * SmallDeg(y.t, x.w))))
      [] y.w # 0 /\ x.w = 0 ->
            (IF x.t = 0 THEN Num(Angle(y.w, 0), 0)
             ELSE Round(Num(90 * ISign(y.w),
                            0 - ISign(y.w) * ISign(x.t) * SmallDeg(x.t, y.w))))

RECURSIVE ISqrtIn(_, _, _)
\* floor of the square root of n, known to lie in lo..hi
ISqrtIn(n, lo, hi) ==
    IF lo >= hi THEN lo
    ELSE LET mid == (lo + hi + 1) \div 2
         IN  IF mid * mid <= n THEN ISqrtIn(n, mid, hi)
             ELSE ISqrtIn(n, lo, mid - 1)

\* sqrt(p**2 + q**2) for whole p, q
IHypot(p, q) ==
    ISqrtIn(p * p + q * q, IMax(IAbs(p), IAbs(q)), IAbs(p) + IAbs(q))

\* sqrt(x**2 + y**2): tiny parts are below the float spacing of a whole
\* result; two tiny components give a tiny result
Hypot(x, y) ==
    IF x.w = 0 /\ y.w = 0 THEN Num(0, IHypot(x.t, y.t))
    ELSE Num(IHypot(x.w, y.w), 0)

----------------------------------------------------------------------------
\* numpy.ma

Elem(d, m) == [d |-> d, m |-> m]

Present(d) == Elem(d, FALSE)

\* the ma.masked singleton (data 0.)
masked == Elem(Zero, TRUE)

Scalar(el) == [scalar |-> TRUE, e |-> <<el>>]

Field(es) == [scalar |-> FALSE, e |-> es]

\* a shape check that compares sizes only
SameLength(x, y) == Len(x.e) = Len(y.e)

\* x.shape == y.shape
SameShape(x, y) == x.scalar = y.scalar /\ Len(x.e) = Len(y.e)

\* element i of x broadcast against a longer array
Bc(x, i) == IF Len(x.e) = 1 THEN x.e[1] ELSE x.e[i]

\* x == missing at one element: the comparison's data is False under a mask
IsMissing(el, miss) == ~el.m /\ el.d = miss

\* x[x == missing] = ma.masked at one element
MaskMissing(el, miss) == Elem(el.d, el.m \/ IsMissing(el, miss))

\* x[cond] = 0. at one element, cond a masked boolean array: the index is
\* cond's data, and assigning a plain number clears the mask there
SetZeroWhere(el, cond) == IF cond THEN Present(Zero) ELSE el

Ok(vals) == [err |-> "none", v |-> vals]

Err(e) == [err |-> e, v |-> <<>>]

\* the longer of two arrays' lengths (the broadcast length)
BcLen(x, y) == IMax(Len(x.e), Len(y.e))

----------------------------------------------------------------------------
\* sharppy.sharptab.utils

\* wspd * ma.sin(np.radians(wdir % 360.)) * -1 and the same with ma.cos:
\* a masked binary operation leaves its first operand's data under the
\* mask of an array, and gives ma.masked for a masked 0-d result
_vec2comp(wdir, wspd) ==
    LET both == wdir.scalar /\ wspd.scalar
        comp(i, trig) ==
            LET d == Bc(wdir, i)
                s == Bc(wspd, i)
            IN  IF d.m \/ s.m
                THEN (IF both THEN masked ELSE Elem(s.d, TRUE))
                ELSE Present(Mul(Mul(s.d, IF trig = "sin"
                                          THEN SinDeg(Mod360(d.d))
                                          ELSE CosDeg(Mod360(d.d))),
                                 MinusOne))
        u == [i \in 1..BcLen(wdir, wspd) |-> comp(i, "sin")]
        v == [i \in 1..BcLen(wdir, wspd) |-> comp(i, "cos")]
    IN  <<[scalar |-> both, e |-> u], [scalar |-> both, e |-> v]>>

\* the field branch of vec2comp (lines 199-205)
vec2compField(wdir, wspd, miss) ==
    LET n == BcLen(wdir, wspd)
        wd1 == [i \in 1..n |-> MaskMissing(Bc(wdir, i), miss)]
        ws1 == [i \in 1..n |-> MaskMissing(Bc(wspd, i), miss)]
        wd2 == [i \in 1..n |-> Elem(wd1[i].d, wd1[i].m \/ ws1[i].m)]
        ws2 == [i \in 1..n |-> Elem(ws1[i].d, ws1[i].m \/ wd2[i].m)]
        uv == _vec2comp(Field(wd2), Field(ws2))
        snap(x) == [i \in 1..n |->
                        SetZeroWhere(x.e[i], Lt(fabs(x.e[i].d), TOL))]
    IN  <<Field(snap(uv[1])), Field(snap(uv[2]))>>

\* the scalar branch of vec2comp (lines 207-217): a masked comparison is
\* falsy in an if
vec2compScalar(wdir, wspd, miss) ==
    LET hit == IsMissing(wdir.e[1], miss) \/ IsMissing(wspd.e[1], miss)
        wd == IF hit THEN masked ELSE wdir.e[1]
        ws == IF hit THEN masked ELSE wspd.e[1]
        uv == _vec2comp(Scalar(wd), Scalar(ws))
        snap(x) == IF ~x.m /\ Lt(fabs(x.d), TOL) THEN Present(Zero) ELSE x
    IN  <<Scalar(snap(uv[1].e[1])), Scalar(snap(uv[2].e[1]))>>

vec2comp(wdir, wspd, miss) ==
    IF ~SameShape(wdir, wspd) THEN Err("AssertionError")
    ELSE IF ~wdir.scalar THEN Ok(vec2compField(wdir, wspd, miss))
    ELSE Ok(vec2compScalar(wdir, wspd, miss))

\* a magnitude that snaps values below TOL to 0., as the directions are
magElemSnapped(ue, ve) ==
    IF ue.m \/ ve.m
    THEN Elem(IF ue.m THEN ue.d ELSE Mul(ue.d, ue.d), TRUE)
    ELSE IF Lt(Hypot(ue.d, ve.d), TOL) THEN Present(Zero)
    ELSE Present(Hypot(ue.d, ve.d))

\* ma.sqrt(u**2 + v**2) at one element of an array (line 295): under the
\* mask the data is u's where u is masked and u**2's otherwise
magElem(ue, ve) ==
    IF ue.m \/ ve.m
    THEN Elem(IF ue.m THEN ue.d ELSE Mul(ue.d, ue.d), TRUE)
    ELSE Present(Hypot(ue.d, ve.d))

\* the field branch of mag (lines 290-291, 295); v may be 0-d or of
\* length 1 and is then broadcast
magField(u, v, miss) ==
    LET n == BcLen(u, v)
    IN  IF ~v.scalar /\ Len(u.e) # Len(v.e) /\ Len(u.e) # 1 /\ Len(v.e) # 1
        THEN Err("ValueError")
        ELSE IF v.scalar /\ v.e[1].m THEN Err("IndexError")
        ELSE Ok(<<Field([i \in 1..n |->
                        magElem(MaskMissing(Bc(u, i), miss),
                                MaskMissing(Bc(v, i), miss))])>>)

\* the scalar branch of mag (lines 293-295): `or` takes the truth value of
\* v == missing, which numpy refuses for an array of several elements
magScalar(u, v, miss) ==
    IF IsMissing(u.e[1], miss) THEN Ok(<<Scalar(masked)>>)
    ELSE IF Len(v.e) > 1 THEN Err("ValueError")
    ELSE IF IsMissing(v.e[1], miss) THEN Ok(<<Scalar(masked)>>)
    ELSE IF v.scalar
         THEN Ok(<<Scalar(IF u.e[1].m \/ v.e[1].m THEN masked
                          ELSE Present(Hypot(u.e[1].d, v.e[1].d)))>>)
         ELSE Ok(<<Field(<<magElem(u.e[1], v.e[1])>>)>>)

mag(u, v, miss) ==
    IF ~u.scalar THEN magField(u, v, miss) ELSE magScalar(u, v, miss)

\* the direction without the negations
DirectionNoNeg(ud, vd) == Atan2Deg(ud, vd)

\* np.degrees(np.arctan2(-u, -v)) (line 247)
Direction(ud, vd) == Atan2Deg(Neg(ud), Neg(vd))

\* lines 247-254 at one element of an array: the direction, the masks, the
\* wrap of negative directions (an in-place add leaves masked data alone)
\* and the snap to 0.
comp2vecElem(ue, ve, miss) ==
    LET raw == Direction(ue.d, ve.d)
        m == MaskMissing(ue, miss).m \/ MaskMissing(ve, miss).m
        wrapped == IF Lt(raw, Zero) /\ ~m THEN Add(raw, N360) ELSE raw
    IN  SetZeroWhere(Elem(wrapped, m), Lt(fabs(wrapped), TOL))

\* the field branch of comp2vec (lines 249-254, 262): wdir has the
\* broadcast shape, and a boolean mask indexes it only if it has that
\* shape or is 0-d
comp2vecField(u, v, miss) ==
    LET n == BcLen(u, v)
        um == [scalar |-> u.scalar,
               e |-> [i \in 1..Len(u.e) |-> MaskMissing(u.e[i], miss)]]
        vm == [scalar |-> v.scalar,
               e |-> [i \in 1..Len(v.e) |-> MaskMissing(v.e[i], miss)]]
        wdir == Field([i \in 1..n |-> comp2vecElem(Bc(u, i), Bc(v, i), miss)])
        wspd == mag(um, vm, MISSING)
    IN  IF ~u.scalar /\ ~v.scalar /\ Len(u.e) # Len(v.e)
           /\ Len(u.e) # 1 /\ Len(v.e) # 1
        THEN Err("ValueError")
        ELSE IF (u.scalar /\ u.e[1].m) \/ (v.scalar /\ v.e[1].m)
        THEN Err("IndexError")
        ELSE IF (~u.scalar /\ Len(u.e) # n) \/ (~v.scalar /\ Len(v.e) # n)
        THEN Err("IndexError")
        ELSE IF wspd.err # "none" THEN wspd
        ELSE Ok(<<wdir, wspd.v[1]>>)

\* the scalar branch of comp2vec (lines 256-262)
comp2vecScalar(u, v, miss) ==
    LET ue == u.e[1]
        ve == v.e[1]
        raw == Direction(ue.d, ve.d)
        wrapped == IF Lt(raw, Zero) THEN Add(raw, N360) ELSE raw
        wdir == IF ue.m \/ ve.m THEN masked
                ELSE IF Lt(fabs(wrapped), TOL) THEN Present(Zero)
                ELSE Present(wrapped)
        wspd == mag(u, v, MISSING)
    IN  IF IsMissing(ue, miss) \/ IsMissing(ve, miss)
        THEN Ok(<<Scalar(masked), Scalar(masked)>>)
        ELSE Ok(<<Scalar(wdir), wspd.v[1]>>)

comp2vec(u, v, miss) ==
    IF u.scalar /\ v.scalar THEN comp2vecScalar(u, v, miss)
    ELSE comp2vecField(u, v, miss)

----------------------------------------------------------------------------
\* Calls.  a and b are the two array arguments, missing the sentinel passed,
\* out the call's result and back the result of feeding out to comp2vec.

\* a caller's own sentinel
ALT == Num(-100, 0)

Missings == {MISSING, ALT}

\* directions: multiples of 90, negative and beyond 360 included
DirVals == {Num(-90, 0), Num(0, 0), Num(90, 0), Num(180, 0), Num(270, 0),
            Num(360, 0), Num(450, 0)}

\* speeds: calm, 1.1e-13 and 5
SpdVals == {Num(0, 0), Num(0, 1000), Num(5, 0)}

\* components: whole, zero and +-1.1e-16, the default sentinel and ALT
CompVals == {Num(-100, 0), Num(0, 0), Num(0, 1), Num(0, -1), Num(3, 0),
             Num(4, 0), MISSING}

\* elements over a set of values: present, equal to the sentinel passed,
\* or already masked (over data 0.)
Elems(vals, miss) ==
    {Present(d) : d \in vals} \cup {Present(miss), Elem(Zero, TRUE)}

\* 0-d arrays and fields of 1..MaxLen elements
Arrays(E) ==
    {Scalar(el) : el \in E}
        \cup UNION {{Field(es) : es \in [1..n -> E]} : n \in 1..MaxLen}

None == [err |-> "unset", v |-> <<>>]

InitVec ==
    /\ pc = "start"
    /\ missing \in Missings
    /\ a \in Arrays(Elems(DirVals, missing))
    /\ b \in Arrays(Elems(SpdVals, missing))
    /\ out = None
    /\ back = None

InitComp ==
    /\ pc = "start"
    /\ missing \in Missings
    /\ a \in Arrays(Elems(CompVals, missing))
    /\ b \in Arrays(Elems(CompVals, missing))
    /\ out = None
    /\ back = None

\* u, v = vec2comp(a, b, missing)
CallVec2Comp ==
    /\ pc = "start"
    /\ out' = vec2comp(a, b, missing)
    /\ pc' = "vec2comp"
    /\ UNCHANGED <<a, b, missing, back>>

\* comp2vec(*vec2comp(a, b, missing), missing)
RoundTrip ==
    /\ pc = "vec2comp"
    /\ out.err = "none"
    /\ back' = comp2vec(out.v[1], out.v[2], missing)
    /\ pc' = "roundtrip"
    /\ UNCHANGED <<a, b, missing, out>>

\* wdir, wspd = comp2vec(a, b, missing)
CallComp2Vec ==
    /\ pc = "start"
    /\ out' = comp2vec(a, b, missing)
    /\ pc' = "comp2vec"
    /\ UNCHANGED <<a, b, missing, back>>

\* mag(a, b, missing)
CallMag ==
    /\ pc = "start"
    /\ out' = mag(a, b, missing)
    /\ pc' = "mag"
    /\ UNCHANGED <<a, b, missing, back>>

NextVec == CallVec2Comp \/ RoundTrip

NextComp == CallComp2Vec \/ CallMag

SpecVec == InitVec /\ [][NextVec]_vars

SpecComp == InitComp /\ [][NextComp]_vars

----------------------------------------------------------------------------
\* Properties

\* an input element that is absent: already masked, or equal to the sentinel
Gone(el, miss) == el.m \/ el.d = miss

GoneAt(i) == Gone(a.e[i], missing) \/ Gone(b.e[i], missing)

ShapesDiffer == a.scalar # b.scalar \/ Len(a.e) # Len(b.e)

\* equal up to the tolerance
Close(x, y) == Lt(fabs(Add(x, Neg(y))), TOL)

\* two results agree: the same error, or the same masks and the same values
\* where not masked
SameOut(r, q) ==
    /\ r.err = q.err
    /\ Len(r.v) = Len(q.v)
    /\ \A k \in 1..Len(r.v) :
          /\ Len(r.v[k].e) = Len(q.v[k].e)
          /\ \A i \in 1..Len(r.v[k].e) :
                /\ r.v[k].e[i].m = q.v[k].e[i].m
                /\ ~r.v[k].e[i].m => r.v[k].e[i].d = q.v[k].e[i].d

\* C1: vec2comp on equal shapes masks u and v at exactly the positions
\* where wdir or wspd is the sentinel or already masked, also after the
\* snap to 0.
C1_MaskedWhereMissing ==
    (pc = "vec2comp" /\ out.err = "none") =>
        \A k \in 1..2 : \A i \in 1..Len(a.e) :
            out.v[k].e[i].m <=> GoneAt(i)

\* C2: comp2vec on equal shapes never raises and masks direction and speed
\* wherever u or v is the sentinel or already masked.
C2_MaskedWhereMissing ==
    (pc = "comp2vec" /\ ~ShapesDiffer) =>
        /\ out.err = "none"
        /\ \A k \in 1..2 : \A i \in 1..Len(a.e) :
              GoneAt(i) => out.v[k].e[i].m

\* the round trip returns (d mod 360, s) at position i
RoundTripAt(i) ==
    /\ back.err = "none"
    /\ ~back.v[1].e[i].m /\ Close(back.v[1].e[i].d, Mod360(a.e[i].d))
    /\ ~back.v[2].e[i].m /\ Close(back.v[2].e[i].d, b.e[i].d)

C4_Range ==
    /\ (pc = "comp2vec" /\ out.err = "none") =>
          \A i \in 1..Len(out.v[1].e) :
              /\ ~out.v[1].e[i].m =>
                    /\ ~Lt(out.v[1].e[i].d, Zero)
                    /\ Lt(out.v[1].e[i].d, N360)
              /\ ~out.v[2].e[i].m => ~Lt(out.v[2].e[i].d, Zero)
    /\ (pc = "mag" /\ out.err = "none") =>
          \A i \in 1..Len(out.v[1].e) :
              ~out.v[1].e[i].m => ~Lt(out.v[1].e[i].d, Zero)

\* C5: vec2comp fails with the shape error and returns nothing exactly when
\* wdir and wspd differ in shape (scalar against field, or fields of
\* different lengths); on equal shapes it returns u and v.
C5_ShapeMismatch ==
    pc = "vec2comp" =>
        IF ShapesDiffer
        THEN out.err = "AssertionError" /\ out.v = <<>>
        ELSE out.err = "none" /\ Len(out.v) = 2

C5_Witness ==
    /\ pc = "vec2comp"
    /\ a = Field(<<Present(Num(0, 0)), Present(Num(180, 0))>>)
    /\ b = Field(<<Present(Num(5, 0))>>)
    /\ out.err = "AssertionError"

\* C6: comp2vec and mag fail whenever u and v differ in shape; they never
\* return a broadcast result.
C6_ShapeMismatchFails ==
    (pc \in {"comp2vec", "mag"} /\ ShapesDiffer) => out.err # "none"

\* C7: for vec2comp, comp2vec and mag, the call on scalars x, y gives what
\* the call on the fields [x], [y] gives at its element 0, masks included.
C7_ScalarFieldSame ==
    (pc \in {"vec2comp", "comp2vec", "mag"} /\ a.scalar /\ b.scalar) =>
        SameOut(out,
                CASE pc = "vec2comp" ->
                        vec2comp(Field(a.e), Field(b.e), missing)
                  [] pc = "comp2vec" ->
                        comp2vec(Field(a.e), Field(b.e), missing)
                  [] pc = "mag" -> mag(Field(a.e), Field(b.e), missing))

\* r is sqrt(x**2 + y**2) on the grid of the numbers, unsnapped
IsHypot(r, x, y) ==
    IF x.w = 0 /\ y.w = 0
    THEN /\ r.w = 0 /\ r.t >= 0
         /\ r.t * r.t <= x.t * x.t + y.t * y.t
         /\ (r.t + 1) * (r.t + 1) > x.t * x.t + y.t * y.t
    ELSE /\ r.t = 0 /\ r.w >= 0
         /\ r.w * r.w <= x.w * x.w + y.w * y.w
         /\ (r.w + 1) * (r.w + 1) > x.w * x.w + y.w * y.w

\* C8: mag on equal shapes is masked where u or v is the sentinel or
\* already masked, and elsewhere is sqrt(u^2 + v^2) with no snap to 0.
C8_Mag ==
    (pc = "mag" /\ ~ShapesDiffer) =>
        /\ out.err = "none"
        /\ out.v[1].scalar = a.scalar
        /\ Len(out.v[1].e) = Len(a.e)
        /\ \A i \in 1..Len(a.e) :
              IF GoneAt(i) THEN out.v[1].e[i].m
              ELSE /\ ~out.v[1].e[i].m
                   /\ IsHypot(out.v[1].e[i].d, a.e[i].d, b.e[i].d)

C8_Witness ==
    /\ pc = "mag"
    /\ a = Field(<<Present(Num(0, 1)), Present(MISSING)>>)
    /\ b = Field(<<Present(Num(0, 0)), Present(Num(4, 0))>>)
    /\ missing = MISSING
    /\ out = Ok(<<Field(<<Present(Num(0, 1)), Elem(MISSING, TRUE)>>)>>)

\* C9: comp2vec reports exactly 0 at every unmasked position whose computed
\* direction degrees(atan2(-u, -v)) is below TOL in absolute value, of
\* either sign; vec2comp reports exactly 0 for every unmasked component
\* below TOL in absolute value.
C9_Snap ==
    /\ (pc = "comp2vec" /\ out.err = "none" /\ ~ShapesDiffer) =>
          \A i \in 1..Len(a.e) :
              (/\ ~out.v[1].e[i].m
               /\ Lt(fabs(Atan2Deg(Neg(a.e[i].d), Neg(b.e[i].d))), TOL))
                  => out.v[1].e[i].d = Zero
    /\ (pc = "vec2comp" /\ out.err = "none") =>
          \A k \in 1..2 : \A i \in 1..Len(a.e) :
              (~out.v[k].e[i].m /\ Lt(fabs(out.v[k].e[i].d), TOL))
                  => out.v[k].e[i].d = Zero

\* C10: for fields and any sentinel passed, the speed comp2vec returns is
\* masked at exactly the positions where u or v is that sentinel or already
\* masked, and every other element, the default MISSING under another
\* sentinel included, is data in both the direction and the speed.
C10_SameMasks ==
    (pc = "comp2vec" /\ ~a.scalar /\ ~b.scalar /\ out.err = "none") =>
        \A i \in 1..Len(a.e) :
            /\ out.v[2].e[i].m <=> GoneAt(i)
            /\ ~GoneAt(i) => ~out.v[1].e[i].m

====
